---- MODULE Spec2Model ----
(***************************************************************************)
(* A model of scopedalloc.h: arena_interf<Alignment> (bump allocation,     *)
(* LIFO-only reclaim, heap fallback, outlive detection), fixed_arena,      *)
(* dynamic_arena, allocator<T, Alignment> and svobuf<T, N>.                *)
(*                                                                         *)
(* Addresses and size_t values are WordBits wide (arithmetic modulo        *)
(* 2^WordBits); nullptr is address 0.  The pointer size and the maximal    *)
(* fundamental alignment keep their LP64 values.                           *)
(***************************************************************************)
EXTENDS Integers, Sequences, FiniteSets, TLC

\* ------------------------------------------------------------------ bounds
WordBits == 8
MaxBlocks == 2
MaxN == 2
MaxExtra == 1
MaxHandles == 2

\* ------------------------------------------------------- platform constants
PtrSize == 8
MaxAlignT == 16

SizeMod == 2 ^ WordBits
SIZE_MAX == SizeMod - 1
NULL == 0

\* ----------------------------------------------------------- bit arithmetic
RECURSIVE BitAnd(_, _)
BitAnd(a, b) ==
    IF a = 0 \/ b = 0 THEN 0
    ELSE (a % 2) * (b % 2) + 2 * BitAnd(a \div 2, b \div 2)

BitNot(a) == SIZE_MAX - a

\* size_t / pointer arithmetic wraps
Wrap(x) == x % SizeMod

is_power2(n) == (n > 0) /\ (BitAnd(n, n - 1) = 0)

check_alignment(alignment) ==
    IF ~is_power2(alignment) THEN FALSE
    ELSE IF alignment <= MaxAlignT THEN TRUE
    ELSE alignment % PtrSize = 0

\* the template arguments tried for Alignment
Alignments == {a \in {1, 4, 8, 32} : check_alignment(a)}

\* the byte counts tried for a buffer (fixed_arena's ByteCount, dynamic_arena's byte_count)
ArenaSizes == {32, 64}

\* the byte counts a caller passes to allocate
ByteCounts == {0, 10, 60, SIZE_MAX - 2}

\* where the enclosing object of a fixed_arena may put m_storage (alignas(Alignment))
StorageAddrs(A) == {b \in {64} : b % A = 0}

\* the element types tried for T, as [size |-> sizeof(T), align |-> alignof(T)]
Types == {[size |-> 1, align |-> 1], [size |-> 4, align |-> 4],
          [size |-> 8, align |-> 8], [size |-> 16, align |-> 8]}

\* the pointers a caller may invent for deallocate
WildPointers == {NULL, 64, 80}

\* where the platform heap may put a block
HeapAddrs == {128, 192}

\* ------------------------------------------------------------------- state
VARIABLES
    phase,       \* "none": no object yet; "live"; "terminated": std::terminate ran
    kind,        \* which class was constructed
    Alignment,   \* the Alignment template argument of the arena
    arena,       \* arena_interf's fields [m_buf, m_size, m_cursor]
    m_storage,   \* fixed_arena's inline storage [p, n] (n = 0: none)
    heap,        \* live blocks of the platform heap, as [p, n]
    blocks,      \* blocks the caller holds, oldest first: [p, n, path]
    recent,      \* history: the block of the latest allocate, while the caller holds it
    tmpl,        \* svobuf's template arguments [T_size, T_align, N]
    c,           \* svobuf's vector c: [data, size, cap]
    cp,          \* a copy of c made by the caller (auto buf_cp = buf.c): [made, data, size, cap]
    twin,        \* a second fixed_arena of the same type, at another address
    handles,     \* the allocator<T, Alignment> objects: [m_arena, T, root]
    run,         \* history: sums of rounded sizes since used() was last known 0
    last         \* history: the last call, its arguments, result and primitive calls

vars == <<phase, kind, Alignment, arena, m_storage, heap, blocks, recent, tmpl, c, cp, twin,
          handles, run, last>>

NoArena == [m_buf |-> NULL, m_size |-> 0, m_cursor |-> NULL]
NoStorage == [p |-> NULL, n |-> 0]
NoTmpl == [T_size |-> 1, T_align |-> 1, N |-> 0]
NoVector == [data |-> NULL, size |-> 0, cap |-> 0]
NoCopy == [made |-> FALSE, data |-> NULL, size |-> 0, cap |-> 0]
NoRecent == [live |-> FALSE, before |-> NULL]
NoRun == [valid |-> FALSE, all |-> 0, inbuf |-> 0]
NewRun == [valid |-> TRUE, all |-> 0, inbuf |-> 0]

\* cursor0 is m_cursor before the call; top, latest and before say which block a
\* deallocate was given: the newest in-buffer block still held, the block of the
\* latest in-buffer allocate, and m_cursor before that allocate; after says that
\* the call came when the arena's destructor had run
Call(op, p, n, ret, outcome, calls, cursor0) ==
    [op |-> op, p |-> p, n |-> n, ret |-> ret, outcome |-> outcome,
     calls |-> calls, cursor0 |-> cursor0, path |-> "none",
     top |-> FALSE, latest |-> FALSE, before |-> NULL, after |-> FALSE]

\* --------------------------------------------------- arena_interf accessors
has_buf(ar) == ar.m_buf # NULL /\ ar.m_size # 0

\* used(): static_cast<size_t>(m_cursor - get_buf_ex().buf)
used(ar) == Wrap(ar.m_cursor - ar.m_buf + SizeMod)

in_buf(ar, p) == ar.m_buf <= p /\ p <= ar.m_buf + ar.m_size

\* get_buf_ex(): "ok", or the exception it raises
get_buf_ex(ar) == IF has_buf(ar) THEN "ok" ELSE "InvalidState"

\* usage(): (used() * 1.0) / get_buf_ex().size, as the pair <<dividend, divisor>>
usage(ar) == <<used(ar), ar.m_size>>

\* aligned_size without the "+ (Alignment - 1)": rounds down
aligned_size_down(A, byte_count) == BitAnd(byte_count, BitNot(A - 1))

\* aligned_size without the rounding
aligned_size_none(A, byte_count) == byte_count

aligned_size(A, byte_count) == BitAnd(Wrap(byte_count + (A - 1)), BitNot(A - 1))

\* the smallest multiple of A that is >= n, in unbounded arithmetic
RoundUp(A, n) == ((n + A - 1) \div A) * A

\* detect_outlive(): "ok", or the exception it raises
detect_outlive(ar) ==
    IF ~has_buf(ar) THEN "InvalidState"
    ELSE IF ~in_buf(ar, ar.m_cursor) THEN "LifetimeViolation"
    ELSE "ok"

\* ------------------------------------------------------------ platform heap
Overlaps(p, n, q, m) == p < q + m /\ q < p + n

\* a block's one-past-the-end address is an address too: no block ends at 2^WordBits
IsFree(hp, st, p, n) ==
    /\ p + n < SizeMod
    /\ ~Overlaps(p, n, st.p, st.n)
    /\ \A b \in hp : ~Overlaps(p, n, b.p, b.n)

\* posix_memalign(&ptr, alignment, size): the set of [err, p] it may return
posix_memalign(hp, st, alignment, size) ==
    IF ~(is_power2(alignment) /\ alignment % PtrSize = 0)
    THEN {[err |-> "EINVAL", p |-> NULL]}
    ELSE {[err |-> "ENOMEM", p |-> NULL]} \cup
         {[err |-> "ok", p |-> p] : p \in {q \in HeapAddrs : q % alignment = 0 /\ IsFree(hp, st, q, size)}}

\* free(p): the set of [heap, crashed] it may leave; freeing what is not a live
\* block is undefined: the heap may abort the process or carry on
free(hp, p) ==
    IF \E b \in hp : b.p = p
    THEN {[heap |-> {b \in hp : b.p # p}, crashed |-> FALSE]}
    ELSE {[heap |-> hp, crashed |-> FALSE], [heap |-> hp, crashed |-> TRUE]}

\* overalign_alloc / alloc_aligned / dynamic_alloc: set of [outcome, p, heap, calls]
alloc_aligned(hp, st, A, byte_count) ==
    {[outcome |-> IF r.err = "ok" THEN "ok"
                  ELSE IF r.err = "ENOMEM" THEN "AllocationFailure" ELSE "AllocationEINVAL",
      p |-> r.p,
      heap |-> IF r.err = "ok" THEN hp \cup {[p |-> r.p, n |-> byte_count]} ELSE hp,
      calls |-> <<[f |-> "posix_memalign", p |-> r.p, n |-> byte_count, err |-> r.err]>>]
     : r \in posix_memalign(hp, st, A, byte_count)}

\* free_aligned(p): set of [heap, crashed, calls]; the call's err tells whether p
\* was a live block of the heap
free_aligned(hp, p) ==
    IF p = NULL THEN {[heap |-> hp, crashed |-> FALSE, calls |-> <<>>]}
    ELSE {[heap |-> f.heap, crashed |-> f.crashed,
           calls |-> <<[f |-> "free", p |-> p, n |-> 0,
                        err |-> IF \E b \in hp : b.p = p THEN "ok" ELSE "not a live block"]>>]
          : f \in free(hp, p)}

\* ------------------------------------------------------- arena_interf calls
\* allocate without the byte_count == 0 return
allocate_zero_unchecked(ar, hp, st, A, byte_count) ==
    IF detect_outlive(ar) # "ok"
    THEN {[arena |-> ar, heap |-> hp, ret |-> NULL, outcome |-> detect_outlive(ar),
           calls |-> <<>>, path |-> "none"]}
    ELSE IF Wrap(ar.m_buf + ar.m_size - ar.m_cursor + SizeMod) >= aligned_size(A, byte_count)
    THEN {[arena |-> [ar EXCEPT !.m_cursor = Wrap(ar.m_cursor + aligned_size(A, byte_count))],
           heap |-> hp, ret |-> ar.m_cursor, outcome |-> "ok", calls |-> <<>>, path |-> "bump"]}
    ELSE {[arena |-> ar, heap |-> r.heap, ret |-> r.p, outcome |-> r.outcome,
           calls |-> r.calls, path |-> "fallback"]
          : r \in alloc_aligned(hp, st, A, byte_count)}

\* allocate that takes every request from the buffer, whatever is left of it
allocate_unbounded(ar, hp, st, A, byte_count) ==
    IF detect_outlive(ar) # "ok"
    THEN {[arena |-> ar, heap |-> hp, ret |-> NULL, outcome |-> detect_outlive(ar),
           calls |-> <<>>, path |-> "none"]}
    ELSE IF byte_count = 0
    THEN {[arena |-> ar, heap |-> hp, ret |-> NULL, outcome |-> "ok",
           calls |-> <<>>, path |-> "none"]}
    ELSE {[arena |-> [ar EXCEPT !.m_cursor = Wrap(ar.m_cursor + aligned_size(A, byte_count))],
           heap |-> hp, ret |-> ar.m_cursor, outcome |-> "ok", calls |-> <<>>, path |-> "bump"]}

\* allocate<RequestAlignment>(byte_count): set of [arena, heap, ret, outcome, calls, path]
allocate(ar, hp, st, A, byte_count) ==
    IF detect_outlive(ar) # "ok"
    THEN {[arena |-> ar, heap |-> hp, ret |-> NULL, outcome |-> detect_outlive(ar),
           calls |-> <<>>, path |-> "none"]}
    ELSE IF byte_count = 0
    THEN {[arena |-> ar, heap |-> hp, ret |-> NULL, outcome |-> "ok",
           calls |-> <<>>, path |-> "none"]}
    ELSE LET byte_count_aligned == aligned_size(A, byte_count) IN
         IF Wrap(ar.m_buf + ar.m_size - ar.m_cursor + SizeMod) >= byte_count_aligned
         THEN {[arena |-> [ar EXCEPT !.m_cursor = Wrap(ar.m_cursor + byte_count_aligned)],
                heap |-> hp, ret |-> ar.m_cursor, outcome |-> "ok",
                calls |-> <<>>, path |-> "bump"]}
         ELSE {[arena |-> ar, heap |-> r.heap, ret |-> r.p, outcome |-> r.outcome,
                calls |-> r.calls, path |-> "fallback"]
               : r \in alloc_aligned(hp, st, A, byte_count)}

\* deallocate(p, byte_count) noexcept: an exception inside it is std::terminate
deallocate(ar, hp, A, p, byte_count) ==
    IF detect_outlive(ar) # "ok"
    THEN {[arena |-> ar, heap |-> hp, outcome |-> "terminate", calls |-> <<>>]}
    ELSE IF in_buf(ar, p)
    THEN IF Wrap(p + aligned_size(A, byte_count)) = ar.m_cursor
         THEN {[arena |-> [ar EXCEPT !.m_cursor = p], heap |-> hp, outcome |-> "ok", calls |-> <<>>]}
         ELSE {[arena |-> ar, heap |-> hp, outcome |-> "ok", calls |-> <<>>]}
    ELSE {[arena |-> ar, heap |-> f.heap,
           outcome |-> IF f.crashed THEN "crash" ELSE "ok", calls |-> f.calls]
          : f \in free_aligned(hp, p)}

\* reset() that leaves the cursor where it is
reset_keeps_cursor(ar) ==
    IF ~has_buf(ar) THEN [arena |-> ar, outcome |-> "InvalidState"]
    ELSE [arena |-> ar, outcome |-> "ok"]

\* reset(): cursor := get_buf_ex().buf
reset(ar) ==
    IF ~has_buf(ar) THEN [arena |-> ar, outcome |-> "InvalidState"]
    ELSE [arena |-> [ar EXCEPT !.m_cursor = ar.m_buf], outcome |-> "ok"]

\* set_buf(buf)
set_buf(ar, p, n) ==
    IF ~(p # NULL /\ n # 0) THEN [arena |-> ar, outcome |-> "InvalidState"]
    ELSE [arena |-> [m_buf |-> p, m_size |-> n, m_cursor |-> p], outcome |-> "ok"]

\* dynamic_arena::alloc that attaches the new buffer without freeing the old one
dynamic_arena_alloc_leaking(ar, hp, st, A, byte_count) ==
    IF byte_count = 0
    THEN {[arena |-> ar, heap |-> hp, outcome |-> "InvalidArgument", calls |-> <<>>]}
    ELSE {[arena |-> IF r.outcome = "ok" THEN set_buf(ar, r.p, byte_count).arena ELSE ar,
           heap |-> r.heap, outcome |-> r.outcome, calls |-> r.calls]
          : r \in alloc_aligned(hp, st, A, byte_count)}

\* dynamic_arena::alloc that looks at byte_count only after it has freed the buffer
dynamic_arena_alloc_late_check(ar, hp, st, A, byte_count) ==
    UNION {
        IF f.crashed
        THEN {[arena |-> ar, heap |-> f.heap, outcome |-> "crash", calls |-> f.calls]}
        ELSE IF byte_count = 0
        THEN {[arena |-> ar, heap |-> f.heap, outcome |-> "InvalidArgument", calls |-> f.calls]}
        ELSE {[arena |-> IF r.outcome = "ok" THEN set_buf(ar, r.p, byte_count).arena ELSE ar,
               heap |-> r.heap, outcome |-> r.outcome, calls |-> f.calls \o r.calls]
              : r \in alloc_aligned(f.heap, st, A, byte_count)}
        : f \in (IF has_buf(ar) THEN free_aligned(hp, ar.m_buf)
                 ELSE {[heap |-> hp, crashed |-> FALSE, calls |-> <<>>]})}

\* dynamic_arena::alloc(byte_count): set of [arena, heap, outcome, calls]
dynamic_arena_alloc(ar, hp, st, A, byte_count) ==
    IF byte_count = 0
    THEN {[arena |-> ar, heap |-> hp, outcome |-> "InvalidArgument", calls |-> <<>>]}
    ELSE UNION {
        IF f.crashed
        THEN {[arena |-> ar, heap |-> f.heap, outcome |-> "crash", calls |-> f.calls]}
        ELSE {[arena |-> IF r.outcome = "ok" THEN set_buf(ar, r.p, byte_count).arena ELSE ar,
               heap |-> r.heap, outcome |-> r.outcome, calls |-> f.calls \o r.calls]
              : r \in alloc_aligned(f.heap, st, A, byte_count)}
        : f \in (IF has_buf(ar) THEN free_aligned(hp, ar.m_buf)
                 ELSE {[heap |-> hp, crashed |-> FALSE, calls |-> <<>>]})}

\* ~dynamic_arena() that frees whatever m_buf holds, attached or not
dynamic_arena_dtor_unchecked(ar, hp) ==
    {[heap |-> f.heap, crashed |-> f.crashed,
      calls |-> <<[f |-> "free", p |-> ar.m_buf, n |-> 0, err |-> "ok"]>>] : f \in free(hp, ar.m_buf)}

\* ~dynamic_arena(): set of [heap, crashed, calls]
dynamic_arena_dtor(ar, hp) ==
    IF has_buf(ar) THEN free_aligned(hp, ar.m_buf)
    ELSE {[heap |-> hp, crashed |-> FALSE, calls |-> <<>>]}

\* ~arena_interf(): the fields it leaves
arena_interf_dtor(ar) == [m_buf |-> NULL, m_size |-> 0, m_cursor |-> NULL]

\* ----------------------------------------------------------------- actions
Init ==
    /\ phase = "none"
    /\ kind = "none"
    /\ Alignment = 1
    /\ arena = NoArena
    /\ m_storage = NoStorage
    /\ heap = {}
    /\ blocks = <<>>
    /\ recent = NoRecent
    /\ tmpl = NoTmpl
    /\ c = NoVector
    /\ cp = NoCopy
    /\ twin = NoArena
    /\ handles = <<>>
    /\ run = NoRun
    /\ last = Call("none", NULL, 0, NULL, "ok", <<>>, NULL)

\* fixed_arena<ByteCount, A>::fixed_arena()
ConstructFixed(A, ByteCount, base) ==
    /\ phase = "none"
    /\ phase' = "live"
    /\ kind' = "fixed_arena"
    /\ Alignment' = A
    /\ m_storage' = [p |-> base, n |-> ByteCount]
    /\ arena' = set_buf(NoArena, base, ByteCount).arena
    /\ run' = NewRun
    /\ last' = Call("fixed_arena", NULL, ByteCount, NULL, "ok", <<>>, NULL)
    /\ UNCHANGED <<heap, blocks, recent, tmpl, c, cp, twin, handles>>

\* dynamic_arena<A>::dynamic_arena(byte_count)
ConstructDynamic(A, byte_count) ==
    /\ phase = "none"
    /\ Alignment' = A
    /\ IF byte_count = 0
       THEN /\ phase' = "live"
            /\ kind' = "dynamic_arena"
            /\ last' = Call("dynamic_arena", NULL, 0, NULL, "ok", <<>>, NULL)
            /\ run' = NoRun
            /\ UNCHANGED <<arena, heap>>
       ELSE \E r \in dynamic_arena_alloc(NoArena, heap, m_storage, A, byte_count) :
            /\ phase' = IF r.outcome = "ok" THEN "live" ELSE "none"
            /\ kind' = IF r.outcome = "ok" THEN "dynamic_arena" ELSE "none"
            /\ arena' = r.arena
            /\ heap' = r.heap
            /\ run' = IF r.outcome = "ok" THEN NewRun ELSE NoRun
            /\ last' = Call("dynamic_arena", NULL, byte_count, NULL, r.outcome, r.calls, NULL)
    /\ UNCHANGED <<m_storage, blocks, recent, tmpl, c, cp, twin, handles>>

\* dynamic_arena<A>::dynamic_arena(const aligned_buf<BufAlignment> &buf), with
\* BufAlignment >= A (static_assert in set_buf).  The descriptor is the caller's:
\* empty, a block the caller took from the heap, or storage that is not the heap's
ConstructAdopt(A, buf, origin) ==
    /\ phase = "none"
    /\ origin = "heap" => (buf.p % A = 0 /\ IsFree(heap, m_storage, buf.p, buf.n))
    /\ Alignment' = A
    /\ LET r == set_buf(NoArena, buf.p, buf.n)
           built == r.outcome = "ok"
       IN /\ phase' = IF built THEN "live" ELSE "none"
          /\ kind' = IF built THEN "dynamic_arena" ELSE "none"
          /\ arena' = r.arena
          /\ heap' = IF built /\ origin = "heap" THEN heap \cup {buf} ELSE heap
          /\ m_storage' = IF built /\ origin = "static" THEN buf ELSE m_storage
          /\ run' = IF built THEN NewRun ELSE NoRun
          /\ last' = [Call("adopt", buf.p, buf.n, NULL, r.outcome, <<>>, NULL)
                         EXCEPT !.path = origin]
    /\ UNCHANGED <<blocks, recent, tmpl, c, cp, twin, handles>>

IsArena == phase = "live" /\ kind \in {"fixed_arena", "dynamic_arena"}

\* the buffer the arena points at is storage it may use: fixed_arena's m_storage,
\* or for a dynamic_arena a live block of the heap (or the caller's storage it adopted)
BufferValid ==
    /\ has_buf(arena)
    /\ \/ m_storage = [p |-> arena.m_buf, n |-> arena.m_size]
       \/ [p |-> arena.m_buf, n |-> arena.m_size] \in heap

\* a caller's arena.allocate<...>(byte_count)
Allocate(byte_count) ==
    /\ IsArena
    /\ Len(blocks) < MaxBlocks
    /\ \E r \in allocate(arena, heap, m_storage, Alignment, byte_count) :
        /\ arena' = r.arena
        /\ heap' = r.heap
        /\ blocks' = IF r.outcome = "ok" /\ r.ret # NULL
                     THEN Append(blocks, [p |-> r.ret, n |-> byte_count, path |-> r.path])
                     ELSE blocks
        /\ recent' = IF r.outcome = "ok" /\ r.path = "bump"
                     THEN [live |-> TRUE, before |-> arena.m_cursor]
                     ELSE recent
        /\ run' = IF r.outcome = "ok" /\ run.valid
                  THEN [run EXCEPT !.all = @ + Wrap(RoundUp(Alignment, byte_count)),
                                   !.inbuf = @ + (IF r.path = "bump"
                                                  THEN Wrap(RoundUp(Alignment, byte_count)) ELSE 0)]
                  ELSE run
        /\ last' = [Call("allocate", NULL, byte_count, r.ret, r.outcome, r.calls, arena.m_cursor)
                       EXCEPT !.path = r.path]
    /\ UNCHANGED <<phase, kind, Alignment, m_storage, tmpl, c, cp, twin, handles>>

\* what a call leaves of the process: an exception escaping a noexcept function
\* is std::terminate, a crash of the heap is an abort
PhaseAfter(outcome) == IF outcome \in {"terminate", "crash"} THEN "terminated" ELSE "live"

RunAfter(ar) == IF has_buf(ar) /\ used(ar) = 0 THEN NewRun ELSE NoRun

RemoveAt(s, i) == SubSeq(s, 1, i - 1) \o SubSeq(s, i + 1, Len(s))

\* the blocks that a fresh cursor leaves valid: the ones not taken from the buffer
Outside(bs) == SelectSeq(bs, LAMBDA b : b.path # "bump")

\* whether blocks[i] is the newest block taken from the buffer that is still held
IsTop(bs, i) == bs[i].path = "bump" /\ \A j \in (i + 1)..Len(bs) : bs[j].path # "bump"

\* a caller's arena.deallocate(p, n) of a block it holds, with the block's byte count
Deallocate(i) ==
    /\ IsArena
    /\ i \in 1..Len(blocks)
    /\ \E r \in deallocate(arena, heap, Alignment, blocks[i].p, blocks[i].n) :
        /\ arena' = r.arena
        /\ heap' = r.heap
        /\ phase' = PhaseAfter(r.outcome)
        /\ run' = RunAfter(r.arena)
        /\ last' = [Call("deallocate", blocks[i].p, blocks[i].n, NULL, r.outcome, r.calls,
                         arena.m_cursor)
                       EXCEPT !.path = blocks[i].path,
                              !.top = IsTop(blocks, i),
                              !.latest = recent.live /\ IsTop(blocks, i),
                              !.before = IF recent.live /\ IsTop(blocks, i)
                                         THEN recent.before ELSE NULL]
    /\ blocks' = RemoveAt(blocks, i)
    /\ recent' = IF IsTop(blocks, i) THEN NoRecent ELSE recent
    /\ UNCHANGED <<kind, Alignment, m_storage, tmpl, c, cp, twin, handles>>

\* a caller's arena.reset()
Reset ==
    /\ IsArena
    /\ arena' = reset(arena).arena
    /\ blocks' = IF reset(arena).outcome = "ok" THEN Outside(blocks) ELSE blocks
    /\ recent' = IF reset(arena).outcome = "ok" THEN NoRecent ELSE recent
    /\ run' = IF reset(arena).outcome = "ok" THEN NewRun ELSE run
    /\ last' = Call("reset", NULL, 0, NULL, reset(arena).outcome, <<>>, arena.m_cursor)
    /\ UNCHANGED <<phase, kind, Alignment, m_storage, heap, tmpl, c, cp, twin, handles>>

\* a caller's arena.used()
Used ==
    /\ IsArena
    /\ last' = Call("used", NULL, 0, IF get_buf_ex(arena) = "ok" THEN used(arena) ELSE 0,
                    get_buf_ex(arena), <<>>, arena.m_cursor)
    /\ UNCHANGED <<phase, kind, Alignment, arena, m_storage, heap, blocks, recent, tmpl, c, cp,
                   twin, handles, run>>

\* a caller's arena.usage()
Usage ==
    /\ IsArena
    /\ last' = Call("usage", NULL, 0, IF get_buf_ex(arena) = "ok" THEN usage(arena) ELSE <<0, 1>>,
                    get_buf_ex(arena), <<>>, arena.m_cursor)
    /\ UNCHANGED <<phase, kind, Alignment, arena, m_storage, heap, blocks, recent, tmpl, c, cp,
                   twin, handles, run>>

\* a caller's dynamic_arena.alloc(byte_count)
Reallocate(byte_count) ==
    /\ phase = "live"
    /\ kind = "dynamic_arena"
    /\ \E r \in dynamic_arena_alloc(arena, heap, m_storage, Alignment, byte_count) :
        /\ arena' = r.arena
        /\ heap' = r.heap
        /\ phase' = PhaseAfter(r.outcome)
        /\ blocks' = IF r.calls = <<>> THEN blocks ELSE Outside(blocks)
        /\ recent' = IF r.calls = <<>> THEN recent ELSE NoRecent
        /\ run' = IF r.outcome = "ok" THEN NewRun
                  ELSE IF r.calls = <<>> THEN run ELSE NoRun
        /\ last' = Call("alloc", arena.m_buf, byte_count, NULL, r.outcome, r.calls, arena.m_cursor)
    /\ UNCHANGED <<kind, Alignment, m_storage, tmpl, c, cp, twin, handles>>

\* the arena's destructor runs: ~dynamic_arena() for a dynamic_arena, then
\* ~arena_interf().  What a later read of the destroyed object's fields finds is
\* undefined: the cleared values, or the old ones where the build drops the stores
Destroy ==
    /\ IsArena
    /\ \E d \in (IF kind = "dynamic_arena" THEN dynamic_arena_dtor(arena, heap)
                 ELSE {[heap |-> heap, crashed |-> FALSE, calls |-> <<>>]}) :
        /\ heap' = d.heap
        /\ phase' = IF d.crashed THEN "terminated" ELSE "destroyed"
        /\ arena' \in {arena_interf_dtor(arena), arena}
        /\ last' = Call("destroy", arena.m_buf, arena.m_size, NULL,
                        IF d.crashed THEN "crash" ELSE "ok", d.calls, arena.m_cursor)
    /\ run' = NoRun
    /\ recent' = NoRecent
    /\ UNCHANGED <<kind, Alignment, m_storage, blocks, tmpl, c, cp, twin, handles>>

\* ------------------------------------------------------------------ svobuf
\* an inline arena of N bytes instead of N elements
svobuf_bytes_unscaled(T, N) == N

\* fixed_arena<N * sizeof(T), alignof(T)> m_arena
svobuf_bytes(T, N) == N * T.size

\* allocator<T, Alignment>::allocate(n) / deallocate(p, n): n * sizeof(T) bytes
handle_bytes(T_size, n) == Wrap(n * T_size)

\* the arena a copy of an allocator allocates from: the one the original is bound to
\* (allocator(const allocator &) = default copies the reference m_arena)
handle_arena(ar) == ar

\* a reserve that asks for nothing
reserve_none(cap, n) == 0

\* std::vector::reserve(n) on a vector of capacity cap: the capacity it asks the
\* allocator for (0: no allocation)
reserve(cap, n) == IF cap < n THEN n ELSE 0

\* std::vector's growth on push_back at full capacity
grow(size) == size + (IF size > 1 THEN size ELSE 1)

\* svobuf<T, N>::svobuf()
ConstructSvobuf(T, N, base) ==
    /\ phase = "none"
    /\ LET st == [p |-> base, n |-> svobuf_bytes(T, N)]
           ar == set_buf(NoArena, st.p, st.n).arena
           want == reserve(0, N)
       IN \E r \in allocate(ar, heap, st, T.align, handle_bytes(T.size, want)) :
            LET built == /\ set_buf(NoArena, st.p, st.n).outcome = "ok"
                         /\ r.outcome = "ok"
                         /\ ~(want > N)
            IN
            /\ phase' = IF built THEN "live" ELSE "none"
            /\ kind' = IF built THEN "svobuf" ELSE "none"
            /\ Alignment' = T.align
            /\ tmpl' = IF built THEN [T_size |-> T.size, T_align |-> T.align, N |-> N] ELSE NoTmpl
            /\ m_storage' = IF built THEN st ELSE NoStorage
            /\ arena' = IF built THEN r.arena ELSE NoArena
            /\ heap' = r.heap
            /\ c' = IF built THEN [data |-> r.ret, size |-> 0, cap |-> want] ELSE NoVector
            /\ last' = [Call("svobuf", NULL, N, r.ret, IF built THEN "ok" ELSE "throw",
                             r.calls, NULL) EXCEPT !.path = r.path]
    /\ UNCHANGED <<blocks, recent, twin, handles, run, cp>>

\* buf.c.push_back(x); the call's n is the insertion's number
PushBack ==
    /\ phase = "live"
    /\ kind = "svobuf"
    /\ c.size < tmpl.N + MaxExtra
    /\ IF c.size < c.cap
       THEN /\ c' = [c EXCEPT !.size = @ + 1]
            /\ last' = Call("push_back", NULL, c.size + 1, NULL, "ok", <<>>, arena.m_cursor)
            /\ UNCHANGED <<phase, arena, heap>>
       ELSE \E r \in allocate(arena, heap, m_storage, Alignment,
                              handle_bytes(tmpl.T_size, grow(c.size))) :
            IF r.outcome # "ok"
            THEN /\ last' = [Call("push_back", NULL, c.size + 1, NULL, r.outcome, r.calls, arena.m_cursor)
                              EXCEPT !.path = r.path]
                 /\ arena' = r.arena
                 /\ heap' = r.heap
                 /\ UNCHANGED <<phase, c>>
            ELSE \E d \in deallocate(r.arena, r.heap, Alignment, c.data,
                                     handle_bytes(tmpl.T_size, c.cap)) :
                 /\ arena' = d.arena
                 /\ heap' = d.heap
                 /\ phase' = PhaseAfter(d.outcome)
                 /\ c' = [data |-> r.ret, size |-> c.size + 1, cap |-> grow(c.size)]
                 /\ last' = [Call("push_back", NULL, c.size + 1, r.ret, d.outcome, r.calls \o d.calls,
                                  arena.m_cursor) EXCEPT !.path = r.path]
    /\ UNCHANGED <<kind, Alignment, m_storage, blocks, recent, tmpl, twin, handles, run, cp>>

\* std::vector's copy constructor: the capacity it asks the allocator for
copy_capacity(size) == size

\* auto buf_cp = buf.c: the copy takes a copy of c's allocator (the same arena) and
\* asks it for storage for c.size elements, if there are any
CopyVector ==
    /\ phase = "live"
    /\ kind = "svobuf"
    /\ ~cp.made
    /\ IF copy_capacity(c.size) = 0
       THEN /\ cp' = [made |-> TRUE, data |-> NULL, size |-> 0, cap |-> 0]
            /\ last' = Call("copy", NULL, 0, NULL, "ok", <<>>, arena.m_cursor)
            /\ UNCHANGED <<arena, heap>>
       ELSE \E r \in allocate(handle_arena(arena), heap, m_storage, Alignment,
                              handle_bytes(tmpl.T_size, copy_capacity(c.size))) :
            /\ arena' = r.arena
            /\ heap' = r.heap
            /\ cp' = IF r.outcome = "ok"
                     THEN [made |-> TRUE, data |-> r.ret, size |-> c.size,
                           cap |-> copy_capacity(c.size)]
                     ELSE cp
            /\ last' = [Call("copy", NULL, c.size, r.ret, r.outcome, r.calls, arena.m_cursor)
                           EXCEPT !.path = r.path]
    /\ UNCHANGED <<phase, kind, Alignment, m_storage, blocks, recent, tmpl, c, twin, handles, run>>

\* buf_cp.push_back(x); the call's n is the insertion's number
PushBackCopy ==
    /\ phase = "live"
    /\ kind = "svobuf"
    /\ cp.made
    /\ cp.size < tmpl.N + MaxExtra
    /\ IF cp.size < cp.cap
       THEN /\ cp' = [cp EXCEPT !.size = @ + 1]
            /\ last' = Call("push_back_cp", NULL, cp.size + 1, NULL, "ok", <<>>, arena.m_cursor)
            /\ UNCHANGED <<phase, arena, heap>>
       ELSE \E r \in allocate(handle_arena(arena), heap, m_storage, Alignment,
                              handle_bytes(tmpl.T_size, grow(cp.size))) :
            IF r.outcome # "ok"
            THEN /\ last' = [Call("push_back_cp", NULL, cp.size + 1, NULL, r.outcome, r.calls,
                                  arena.m_cursor) EXCEPT !.path = r.path]
                 /\ arena' = r.arena
                 /\ heap' = r.heap
                 /\ UNCHANGED <<phase, cp>>
            ELSE \E d \in (IF cp.data = NULL
                           THEN {[arena |-> r.arena, heap |-> r.heap, outcome |-> "ok",
                                  calls |-> <<>>]}
                           ELSE deallocate(r.arena, r.heap, Alignment, cp.data,
                                           handle_bytes(tmpl.T_size, cp.cap))) :
                 /\ arena' = d.arena
                 /\ heap' = d.heap
                 /\ phase' = PhaseAfter(d.outcome)
                 /\ cp' = [made |-> TRUE, data |-> r.ret, size |-> cp.size + 1,
                           cap |-> grow(cp.size)]
                 /\ last' = [Call("push_back_cp", NULL, cp.size + 1, r.ret, d.outcome,
                                  r.calls \o d.calls, arena.m_cursor) EXCEPT !.path = r.path]
    /\ UNCHANGED <<kind, Alignment, m_storage, blocks, recent, tmpl, c, twin, handles, run>>

\* --------------------------------------------------------------- allocator
ArenaOf(id) == IF id = 1 THEN arena ELSE twin

\* an operator == that compares what the arenas hold instead of which arenas they are
op_eq_by_value(h1, h2) ==
    /\ h1.A = h2.A
    /\ ArenaOf(h1.m_arena).m_size = ArenaOf(h2.m_arena).m_size
    /\ used(ArenaOf(h1.m_arena)) = used(ArenaOf(h2.m_arena))

\* operator ==: Alignment == A2 && &(this->m_arena) == &(parm.m_arena)
op_eq(h1, h2) == h1.A = h2.A /\ h1.m_arena = h2.m_arena

\* operator !=
op_ne(h1, h2) == ~op_eq(h1, h2)

\* allocator(arena_interf<Alignment> &arena_ref)
handle_from_arena(id, T_size, A) == [m_arena |-> id, T |-> T_size, A |-> A, root |-> id]

\* allocator(const allocator &) = default
handle_copy(h) == h

\* template<class U> allocator(const allocator<U, Alignment> &alloc_ref)
handle_convert(h, T_size) == [m_arena |-> h.m_arena, T |-> T_size, A |-> h.A, root |-> h.root]

\* a second fixed_arena<ByteCount, Alignment>, placed right below the first one
ConstructTwin ==
    /\ phase = "live"
    /\ kind = "fixed_arena"
    /\ ~has_buf(twin)
    /\ m_storage.p - m_storage.n > NULL
    /\ twin' = set_buf(NoArena, m_storage.p - m_storage.n, m_storage.n).arena
    /\ last' = Call("fixed_arena", NULL, m_storage.n, NULL, "ok", <<>>, NULL)
    /\ UNCHANGED <<phase, kind, Alignment, arena, m_storage, heap, blocks, recent, tmpl, c, cp,
                   handles, run>>

AddHandle(h) ==
    /\ phase = "live"
    /\ Len(handles) < MaxHandles
    /\ handles' = Append(handles, h)
    /\ last' = Call("allocator", NULL, h.T, NULL, "ok", <<>>, NULL)
    /\ UNCHANGED <<phase, kind, Alignment, arena, m_storage, heap, blocks, recent, tmpl, c, cp,
                   twin, run>>

NewHandle(id, T_size) ==
    /\ IsArena
    /\ id = 2 => has_buf(twin)
    /\ AddHandle(handle_from_arena(id, T_size, Alignment))

CopyHandle(i) ==
    /\ i \in 1..Len(handles)
    /\ AddHandle(handle_copy(handles[i]))

ConvertHandle(i, T_size) ==
    /\ i \in 1..Len(handles)
    /\ AddHandle(handle_convert(handles[i], T_size))

\* allocator<T, Alignment>::allocate(n) through handle i; alignof(T) = sizeof(T) must
\* not exceed Alignment (static_assert in arena_interf::allocate)
HandleAllocate(i, n) ==
    /\ phase \in {"live", "destroyed"}
    /\ i \in 1..Len(handles)
    /\ handles[i].T <= Alignment
    /\ \E r \in allocate(ArenaOf(handles[i].m_arena), heap, m_storage, Alignment,
                         handle_bytes(handles[i].T, n)) :
        /\ arena' = IF handles[i].m_arena = 1 THEN r.arena ELSE arena
        /\ twin' = IF handles[i].m_arena = 1 THEN twin ELSE r.arena
        /\ heap' = r.heap
        /\ last' = [Call("allocate", NULL, handle_bytes(handles[i].T, n), r.ret, r.outcome,
                         r.calls, ArenaOf(handles[i].m_arena).m_cursor)
                       EXCEPT !.path = r.path, !.after = (phase = "destroyed")]
    /\ run' = NoRun
    /\ UNCHANGED <<phase, kind, Alignment, m_storage, blocks, recent, tmpl, c, cp, handles>>

\* allocator<T, Alignment>::deallocate(p, n) through handle i
HandleDeallocate(i, p, n) ==
    /\ phase \in {"live", "destroyed"}
    /\ i \in 1..Len(handles)
    /\ handles[i].T <= Alignment
    /\ \E r \in deallocate(ArenaOf(handles[i].m_arena), heap, Alignment, p,
                           handle_bytes(handles[i].T, n)) :
        /\ arena' = IF handles[i].m_arena = 1 THEN r.arena ELSE arena
        /\ twin' = IF handles[i].m_arena = 1 THEN twin ELSE r.arena
        /\ heap' = r.heap
        /\ phase' = IF r.outcome \in {"terminate", "crash"} THEN "terminated" ELSE phase
        /\ last' = [Call("deallocate", p, handle_bytes(handles[i].T, n), NULL, r.outcome,
                         r.calls, ArenaOf(handles[i].m_arena).m_cursor)
                       EXCEPT !.after = (phase = "destroyed")]
    /\ run' = NoRun
    /\ recent' = NoRecent
    /\ UNCHANGED <<kind, Alignment, m_storage, blocks, tmpl, c, cp, handles>>

\* ----------------------------------------------------- arbitrary deallocate
\* arena.deallocate(p, n) with a pointer and a byte count the caller made up
DeallocateAny(p, byte_count) ==
    /\ IsArena
    /\ \E r \in deallocate(arena, heap, Alignment, p, byte_count) :
        /\ arena' = r.arena
        /\ heap' = r.heap
        /\ phase' = PhaseAfter(r.outcome)
        /\ last' = Call("deallocate", p, byte_count, NULL, r.outcome, r.calls, arena.m_cursor)
    /\ run' = NoRun
    /\ recent' = NoRecent
    /\ UNCHANGED <<kind, Alignment, m_storage, blocks, tmpl, c, cp, twin, handles>>

\* ---------------------------------------------------------- specifications
Construct ==
    \/ \E A \in Alignments, n \in ArenaSizes : \E b \in StorageAddrs(A) : ConstructFixed(A, n, b)
    \/ \E A \in Alignments, n \in ArenaSizes \cup {0} : ConstructDynamic(A, n)

Next ==
    \/ Construct
    \/ \E T \in Types, N \in 1..MaxN : \E b \in StorageAddrs(T.align) : ConstructSvobuf(T, N, b)
    \/ \E n \in ByteCounts : Allocate(n)
    \/ \E i \in 1..MaxBlocks : Deallocate(i)
    \/ Reset
    \/ \E n \in ArenaSizes \cup {0} : Reallocate(n)
    \/ PushBack

Spec == Init /\ [][Next]_vars

\* two arenas of one type and the handles bound to them
NextEq ==
    \/ \E A \in Alignments, n \in ArenaSizes : \E b \in StorageAddrs(A) : ConstructFixed(A, n, b)
    \/ ConstructTwin
    \/ \E id \in {1, 2}, T \in {1, 4} : NewHandle(id, T)
    \/ \E i \in 1..MaxHandles : CopyHandle(i)
    \/ \E i \in 1..MaxHandles, T \in {1, 4} : ConvertHandle(i, T)
    \/ \E i \in 1..MaxHandles : HandleAllocate(i, 8)

SpecEq == Init /\ [][NextEq]_vars

\* callers that also pass deallocate pointers and byte counts of their own making
NextAny ==
    \/ Construct
    \/ \E n \in ByteCounts : Allocate(n)
    \/ \E i \in 1..MaxBlocks : Deallocate(i)
    \/ Reset
    \/ \E n \in ArenaSizes \cup {0} : Reallocate(n)
    \/ \E p \in WildPointers, n \in {10, 60} : DeallocateAny(p, n)

SpecAny == Init /\ [][NextAny]_vars

\* svobuf and a copy of its vector
NextCopy ==
    \/ \E T \in Types, N \in 1..MaxN : \E b \in StorageAddrs(T.align) : ConstructSvobuf(T, N, b)
    \/ PushBack
    \/ CopyVector
    \/ PushBackCopy

SpecCopy == Init /\ [][NextCopy]_vars

\* an arena's whole life: construction, use through a handle, alloc, destruction,
\* and the handle's use after that
NextLife ==
    \/ Construct
    \/ \E A \in Alignments :
          \/ \E p \in HeapAddrs, n \in ArenaSizes : ConstructAdopt(A, [p |-> p, n |-> n], "heap")
          \/ \E b \in StorageAddrs(A) : ConstructAdopt(A, [p |-> b, n |-> 32], "static")
          \/ ConstructAdopt(A, [p |-> NULL, n |-> 0], "none")
    \/ NewHandle(1, 1)
    \/ \E i \in 1..MaxHandles, n \in {0, 10, 60} : HandleAllocate(i, n)
    \/ \E i \in 1..MaxHandles, p \in {64, 128} : HandleDeallocate(i, p, 10)
    \/ \E n \in ArenaSizes \cup {0} : Reallocate(n)
    \/ Reset
    \/ Used
    \/ Usage
    \/ Destroy

SpecLife == Init /\ [][NextLife]_vars

\* ------------------------------------------------------------------ claims
\* C1 as stated: after successful allocate calls alone, starting from used() = 0,
\* used() is the sum over all of them of the byte count rounded up to the
\* alignment (in size_t), and used() is at most the buffer's size.
C1_UsedIsSumOfAllCalls ==
    (IsArena /\ has_buf(arena) /\ run.valid) =>
        (used(arena) = run.all /\ used(arena) <= arena.m_size)

\* C1 amended: after successful allocate calls alone, starting from used() = 0,
\* used() is the sum, over the calls that were served from the buffer, of the byte
\* count rounded up to the alignment and taken modulo 2^WordBits, and used() is at
\* most the buffer's size.
C1_UsedIsSumOfBufferCalls ==
    (IsArena /\ has_buf(arena) /\ run.valid) =>
        (used(arena) = run.inbuf /\ used(arena) <= arena.m_size)

\* C1 witness: allocate(10) served from the buffer, then allocate(60) by the fallback
C1_Witness ==
    /\ IsArena /\ run.valid
    /\ used(arena) = 16 /\ run.inbuf = 16 /\ run.all = 80
    /\ last.op = "allocate" /\ last.outcome = "ok" /\ last.path = "fallback"

\* C2: deallocate of the block of the latest in-buffer allocate restores the cursor
\* (so used()) to its value before that allocate; deallocate of a block that is not
\* the newest held in-buffer block leaves the cursor unchanged; and the cursor moves
\* only when p + roundedSize(n) is the cursor.
C2_LifoReclaim ==
    (IsArena /\ last.op = "deallocate" /\ last.outcome = "ok") =>
        /\ last.latest => arena.m_cursor = last.before
        /\ ~last.top => arena.m_cursor = last.cursor0
        /\ arena.m_cursor # last.cursor0 =>
               (last.p + RoundUp(Alignment, last.n) = last.cursor0 /\ arena.m_cursor = last.p)

\* C3: an allocate of byteCount > 0 whose rounded size exceeds the remaining capacity
\* takes the fallback path and returns a pointer outside [start, start + size), or
\* fails because the platform is out of memory; this for every accepted alignment.
C3_FallbackOutsideBuffer ==
    (IsArena /\ last.op = "allocate" /\ last.n > 0
       /\ Wrap(RoundUp(Alignment, last.n)) > arena.m_buf + arena.m_size - last.cursor0) =>
        /\ last.path = "fallback"
        /\ \/ last.outcome = "AllocationFailure"
           \/ /\ last.outcome = "ok"
              /\ ~(arena.m_buf <= last.ret /\ last.ret < arena.m_buf + arena.m_size)

\* C4: every non-null pointer allocate returns, from the buffer or from the
\* fallback, is a multiple of the arena's alignment.
C4_PointersAligned ==
    (IsArena /\ last.op = "allocate" /\ last.outcome = "ok" /\ last.ret # NULL) =>
        last.ret % Alignment = 0

\* C4 witness: an aligned fallback pointer, and an in-buffer one past the start
C4_Witness ==
    /\ IsArena /\ last.op = "allocate" /\ last.outcome = "ok"
    /\ last.path = "fallback" /\ last.ret # NULL
    /\ used(arena) > 0 /\ Alignment = 32

\* C5: after reset() used() is 0, and the next allocate served from the buffer
\* returns the buffer's start.
C5_ResetRestarts ==
    [][/\ (last'.op = "reset" /\ last'.outcome = "ok") => used(arena') = 0
       /\ (last.op = "reset" /\ last.outcome = "ok"
             /\ last'.op = "allocate" /\ last'.path = "bump") => last'.ret = arena.m_buf]_vars

\* C5 witness: a reset that found the cursor advanced and a fallback block held
C5_Witness ==
    /\ IsArena /\ last.op = "reset" /\ last.outcome = "ok"
    /\ last.cursor0 # arena.m_buf /\ blocks # <<>>

\* C6: on an attached arena allocate(0) returns null, leaves the cursor where it
\* was and calls no allocation primitive.
C6_AllocateZero ==
    (IsArena /\ has_buf(arena) /\ last.op = "allocate" /\ last.n = 0) =>
        /\ last.outcome = "ok" /\ last.ret = NULL
        /\ arena.m_cursor = last.cursor0
        /\ last.calls = <<>>

\* C6 witness: allocate(0) on a full arena
C6_Witness ==
    /\ IsArena /\ has_buf(arena) /\ last.op = "allocate" /\ last.n = 0
    /\ used(arena) = arena.m_size

\* C7: right after svobuf's construction the capacity is at least N, taken from the
\* inline arena, which is exactly full; and each of the first N insertions succeeds
\* without a call to an allocation primitive, the elements staying in the buffer.
C7_SvobufInline ==
    (phase = "live" /\ kind = "svobuf") =>
        /\ last.op = "svobuf" =>
              (c.cap >= tmpl.N /\ c.data = arena.m_buf /\ last.calls = <<>>
                 /\ used(arena) = tmpl.N * tmpl.T_size /\ used(arena) = arena.m_size)
        /\ c.size <= tmpl.N => (heap = {} /\ c.data = arena.m_buf)
        /\ (last.op = "push_back" /\ last.n <= tmpl.N) =>
              (last.outcome = "ok" /\ last.calls = <<>> /\ c.size = last.n)

\* C7 witness: N = 2 insertions done
C7_Witness ==
    /\ phase = "live" /\ kind = "svobuf" /\ last.op = "push_back"
    /\ tmpl.N = 2 /\ c.size = 2 /\ tmpl.T_size = 16

\* C8: two handles compare equal exactly when they were bound, directly or through
\* copies and conversions, to the same arena instance.
C8_EqualityIsIdentity ==
    \A i, j \in 1..Len(handles) :
        /\ op_eq(handles[i], handles[j]) <=> (handles[i].root = handles[j].root)
        /\ op_ne(handles[i], handles[j]) <=> (handles[i].root # handles[j].root)

\* C8 witness: handles of two arenas with the same size, alignment and used()
C8_Witness ==
    /\ Len(handles) = 2 /\ handles[1].root # handles[2].root
    /\ handles[1].T # handles[2].T
    /\ has_buf(twin) /\ twin.m_size = arena.m_size
    /\ used(twin) = used(arena) /\ used(arena) > 0

\* C9: a successful alloc(n) on an attached dynamic_arena calls free once, on the
\* old buffer, before it allocates; then the buffer is the new one, of size n, and
\* used() is 0.  On an unattached dynamic_arena alloc calls no free.
C9_ReallocateFreesFirst ==
    (kind = "dynamic_arena" /\ last.op = "alloc") =>
        /\ (last.outcome = "ok" /\ last.p # NULL) =>
              /\ Len(last.calls) = 2
              /\ last.calls[1].f = "free" /\ last.calls[1].p = last.p
              /\ last.calls[2].f = "posix_memalign" /\ last.calls[2].n = last.n
              /\ arena.m_buf = last.calls[2].p /\ arena.m_size = last.n
              /\ used(arena) = 0
        /\ last.p = NULL => \A k \in 1..Len(last.calls) : last.calls[k].f # "free"

\* C9 witness: a successful alloc(64) on an attached arena
C9_Witness ==
    /\ kind = "dynamic_arena" /\ last.op = "alloc" /\ last.outcome = "ok"
    /\ last.p # NULL /\ last.n = 64 /\ last.cursor0 # last.p

\* C10: deallocate raises nothing, whatever its arguments and the arena's state.
C10_DeallocateNeverThrows ==
    last.op = "deallocate" => last.outcome # "terminate"

\* C11: on a dynamic_arena that has no buffer (and has not been destroyed),
\* allocate (of any byte count, 0 included), deallocate, reset, used and usage each
\* fail with the "no valid buffer" error, call no primitive, and leave the arena
\* without a buffer.
C11_UnattachedRejects ==
    (kind = "dynamic_arena" /\ ~has_buf(arena) /\ phase # "destroyed"
       /\ last.op \in {"allocate", "deallocate", "reset", "used", "usage"}) =>
        /\ last.outcome = "InvalidState"
        /\ last.calls = <<>>
        /\ arena = NoArena

\* C12: the destructor of a dynamic_arena calls free exactly once, on the buffer
\* the arena holds, when it holds one (taken by the arena itself or adopted from
\* the caller's descriptor), and calls nothing when it holds none.
C12_DestroyFreesOnce ==
    (kind = "dynamic_arena" /\ last.op = "destroy") =>
        IF last.p # NULL
        THEN /\ Len(last.calls) = 1
             /\ last.calls[1].f = "free" /\ last.calls[1].p = last.p
        ELSE last.calls = <<>>

\* C12 witness: the destructor frees a buffer that was adopted from the caller's own storage
C12_Witness ==
    /\ kind = "dynamic_arena" /\ last.op = "destroy" /\ last.outcome = "ok"
    /\ m_storage.p = last.p /\ last.p # NULL
    /\ last.calls # <<>> /\ arena = NoArena

\* C13: whenever a live arena has a buffer, after any allocate, deallocate (of any
\* pointer and byte count), reset or alloc, the cursor is in [buf, buf + size];
\* and no allocate or deallocate on it raises the "outlived" error.
C13_CursorInBounds ==
    (IsArena /\ has_buf(arena)) =>
        /\ arena.m_buf <= arena.m_cursor /\ arena.m_cursor <= arena.m_buf + arena.m_size
        /\ last.op \in {"allocate", "deallocate"} => last.outcome # "LifetimeViolation"

\* C13 witness: a deallocate of a pointer the caller made up has moved the cursor
\* back, while the caller holds two blocks
C13_Witness ==
    /\ IsArena /\ has_buf(arena) /\ last.op = "deallocate" /\ last.outcome = "ok"
    /\ arena.m_cursor # last.cursor0 /\ Len(blocks) = MaxBlocks

\* C14: deallocate of a block that allocate took from the fallback releases it with
\* one call of free on its pointer and leaves the cursor where it was, wherever the
\* heap had put the block (buf + size included); and deallocate of a block taken
\* from the buffer calls no free.
C14_FallbackFreed ==
    (IsArena /\ BufferValid /\ last.op = "deallocate" /\ last.outcome = "ok") =>
        /\ last.path = "fallback" =>
              /\ Len(last.calls) = 1
              /\ last.calls[1].f = "free" /\ last.calls[1].p = last.p
              /\ arena.m_cursor = last.cursor0
        /\ last.path = "bump" => last.calls = <<>>

\* C15: for every byte count of size_t the rounded size is the smallest multiple of
\* the alignment that is at least the byte count; so an allocate served from the
\* buffer advances the cursor by at least the byte count, and [ret, ret + byte
\* count) lies inside the buffer.
C15_RoundedSizeCoversRequest ==
    (IsArena /\ last.op = "allocate" /\ last.outcome = "ok" /\ last.path = "bump") =>
        /\ aligned_size(Alignment, last.n) = RoundUp(Alignment, last.n)
        /\ arena.m_cursor - last.cursor0 >= last.n
        /\ arena.m_buf <= last.ret /\ last.ret + last.n <= arena.m_buf + arena.m_size

\* C16: alloc(0) on a dynamic_arena fails with the "invalid argument" error, calls
\* no primitive and changes neither the buffer, its size, the cursor nor the heap;
\* and dynamic_arena(0) raises nothing and leaves an arena without a buffer.
C16_ZeroByteCount ==
    [][/\ (last'.op = "alloc" /\ last'.n = 0) =>
             /\ last'.outcome = "InvalidArgument" /\ last'.calls = <<>>
             /\ arena' = arena /\ heap' = heap /\ phase' = phase
       /\ (last'.op = "dynamic_arena" /\ last'.n = 0) =>
             /\ last'.outcome = "ok" /\ last'.calls = <<>>
             /\ phase' = "live" /\ kind' = "dynamic_arena"
             /\ ~has_buf(arena') /\ heap' = heap]_vars

\* C16 witness: alloc(0) refused on an arena whose buffer is partly used
C16_Witness ==
    /\ kind = "dynamic_arena" /\ last.op = "alloc" /\ last.n = 0
    /\ last.outcome = "InvalidArgument"
    /\ BufferValid /\ used(arena) > 0 /\ blocks # <<>>

C18_OutlivedFailsFast ==
    (last.after /\ last.op \in {"allocate", "deallocate"} /\ ~has_buf(arena)) =>
        /\ last.outcome = "LifetimeViolation"
        /\ last.ret = NULL
        /\ arena.m_cursor = last.cursor0

\* C19: on a fixed_arena (its buffer is never replaced), the in-buffer blocks the
\* caller holds (allocated, not yet deallocated, each deallocated with its own byte
\* count) lie within [buf, cursor) and are pairwise disjoint, and allocate returns
\* no address inside a block the caller holds.
C19_LiveBlocksDisjoint ==
    (IsArena /\ kind = "fixed_arena") =>
        /\ \A i \in 1..Len(blocks) : blocks[i].path = "bump" =>
              /\ arena.m_buf <= blocks[i].p
              /\ blocks[i].p + blocks[i].n <= arena.m_cursor
        /\ \A i, j \in 1..Len(blocks) :
              (i < j /\ blocks[i].path = "bump" /\ blocks[j].path = "bump") =>
                  ~Overlaps(blocks[i].p, blocks[i].n, blocks[j].p, blocks[j].n)
        /\ (last.op = "allocate" /\ last.outcome = "ok" /\ last.ret # NULL) =>
              \A i \in 1..(Len(blocks) - 1) :
                  ~(blocks[i].p <= last.ret /\ last.ret < blocks[i].p + blocks[i].n)

\* C20: over the life of a dynamic_arena that takes its buffers from the heap, a
\* live arena that has a buffer has one that is a live block of the heap (so after
\* a failed alloc it has none, or a still valid one), and neither alloc nor the
\* destructor calls free on what is not a live block (no buffer is freed twice).
C20_NoDanglingBuffer ==
    (kind = "dynamic_arena" /\ m_storage = NoStorage) =>
        /\ (phase = "live" /\ has_buf(arena)) => BufferValid
        /\ last.op \in {"alloc", "destroy"} =>
              \A k \in 1..Len(last.calls) :
                  last.calls[k].f = "free" => last.calls[k].err = "ok"
====
